---- MODULE Spec2Model ----
(***************************************************************************)
(* Model of the LLM invocation resilience layer of AEOPresence:            *)
(*   - the error classifier, the backoff calculator and the retrying       *)
(*     invoker (supabase/functions/_shared/gemini-helper.ts),              *)
(*   - the rate limiter GeminiRateLimiter (same file),                     *)
(*   - the analyze-queries edge function (the batch orchestrator) and the  *)
(*     queries table it writes.                                            *)
(*   - the analysis sanitizer validateAndSanitize (validation.ts),         *)
(*   - the generate-queries and reset-stuck-queries edge functions and the *)
(*     top-up loop of the client's handleGenerateQueries.                  *)
(*                                                                         *)
(* Time is in milliseconds.  The limiter stores Date.now() values; the     *)
(* model stores, for every timestamp, its age now - ts, capped at Window   *)
(* (the code treats every age >= 60000 alike).  A sleep is a timer holding *)
(* the milliseconds that remain; Tick lets time pass.                      *)
(***************************************************************************)
EXTENDS Integers, Sequences, FiniteSets, TLC

\* ------------------------------------------------------------ bounds
\* Number of throttled functions (tasks) a limiter run submits.
NumTasks == 3
\* Work items (rows of the queries table) of the one project modelled.
NumItems == 3
\* Invocations of the analyze-queries function.
NumCalls == 2
\* analyze-queries/index.ts:89 sets batchSize = 5; the model scales it down so
\* that a few items make more than one batch.
batchSize == 2
\* Largest requestsPerMinute a limiter is constructed with in the model.
MaxRPM == 2
\* Largest maxRetries of a RetryConfig in the model.
MaxRetriesBound == 2

\* ------------------------------------------------------------ program constants
\* gemini-helper.ts:264  (ts) => now - ts < 60000
Window == 60000
\* gemini-helper.ts:271  + 100 buffer
Buffer == 100
\* gemini-helper.ts:290  sleep(200) between requests
Gap == 200
\* gemini-helper.ts:86   Math.max(delay, 60000)
RateLimitFloor == 60000

Items == 1..NumItems
Calls == 1..NumCalls

\* The throttled function of call c for item q.
TaskOf(c, q) == (c - 1) * NumItems + q

\* Functions submitted beyond requestsPerMinute in a burst.
BurstExtra == 5

Tasks ==
  LET a == IF NumTasks > NumCalls * NumItems THEN NumTasks
           ELSE NumCalls * NumItems
      b == MaxRPM + BurstExtra
  IN  1..(IF a > b THEN a ELSE b)

\* ------------------------------------------------------------ error classifier
\* An error message is modelled by the set of classifier substrings that occur
\* in its lower-cased text.
Markers ==
  {"429", "rate limit", "quota", "parse", "json", "invalid",
   "network", "fetch", "timeout", "validation", "auth", "401", "403"}

\* "Gemini API error: 429 Too Many Requests - ..."      (callGeminiAPI)
MsgRateLimit == {"429"}
\* "Failed to parse JSON: ... (Error: ...)"             (safeJSONParse)
MsgParse == {"parse", "json"}
\* a transport failure of fetch
MsgNetwork == {"fetch"}
\* a message that mentions validation
MsgValidation == {"validation"}
\* "Gemini API error: 403 Forbidden - ..."
MsgAuth == {"403"}
\* "No text content in Gemini response"                  (callGeminiWithRetry)
MsgNoText == {}
\* "Gemini API error: 401 ... API key not valid ..." carries 401 and invalid
MsgAuthInvalid == {"401", "invalid"}

AllMessages ==
  {MsgRateLimit, MsgParse, MsgNetwork, MsgValidation, MsgAuth, MsgNoText,
   MsgAuthInvalid}

Includes(message, marker) == marker \in message

\* A classifier that tests the AUTH_ERROR markers before the PARSE_ERROR ones.
detectErrorTypeAuthFirst(message) ==
  IF Includes(message, "429") \/ Includes(message, "rate limit")
       \/ Includes(message, "quota")
    THEN "RATE_LIMIT"
  ELSE IF Includes(message, "auth") \/ Includes(message, "401")
       \/ Includes(message, "403")
    THEN "AUTH_ERROR"
  ELSE IF Includes(message, "parse") \/ Includes(message, "json")
       \/ Includes(message, "invalid")
    THEN "PARSE_ERROR"
  ELSE IF Includes(message, "network") \/ Includes(message, "fetch")
       \/ Includes(message, "timeout")
    THEN "NETWORK_ERROR"
  ELSE IF Includes(message, "validation")
    THEN "VALIDATION_ERROR"
  ELSE "UNKNOWN"

detectErrorType(message) ==
  IF Includes(message, "429") \/ Includes(message, "rate limit")
       \/ Includes(message, "quota")
    THEN "RATE_LIMIT"
  ELSE IF Includes(message, "parse") \/ Includes(message, "json")
       \/ Includes(message, "invalid")
    THEN "PARSE_ERROR"
  ELSE IF Includes(message, "network") \/ Includes(message, "fetch")
       \/ Includes(message, "timeout")
    THEN "NETWORK_ERROR"
  ELSE IF Includes(message, "validation")
    THEN "VALIDATION_ERROR"
  ELSE IF Includes(message, "auth") \/ Includes(message, "401")
       \/ Includes(message, "403")
    THEN "AUTH_ERROR"
  ELSE "UNKNOWN"

\* A classifier that also retries errors it cannot name.
shouldRetryUnknown(errorType) == errorType # "AUTH_ERROR"

shouldRetry(errorType) ==
  errorType \in {"RATE_LIMIT", "PARSE_ERROR", "NETWORK_ERROR", "VALIDATION_ERROR"}

\* ------------------------------------------------------------ backoff calculator
RECURSIVE Pow(_, _)
Pow(b, e) == IF e = 0 THEN 1 ELSE b * Pow(b, e - 1)

Min(a, b) == IF a < b THEN a ELSE b
Max(a, b) == IF a > b THEN a ELSE b

\* Math.random() is r / RandDen for r in 0 .. RandDen - 1.
RandDen == 4

\* A calculator without the floor for rate limits.
calculateRetryDelayNoFloor(attempt, cfg, errorType, r) ==
  LET baseDelay == IF cfg.initialDelayMs * Pow(cfg.backoffMultiplier, attempt)
                        < cfg.maxDelayMs
                     THEN cfg.initialDelayMs * Pow(cfg.backoffMultiplier, attempt)
                     ELSE cfg.maxDelayMs
  IN  (baseDelay * (3 * RandDen + 2 * r)) \div (4 * RandDen)

\* A calculator whose base delay is not capped by maxDelayMs.
calculateRetryDelayUncapped(attempt, cfg, errorType, r) ==
  LET baseDelay == cfg.initialDelayMs * Pow(cfg.backoffMultiplier, attempt)
      delay == (baseDelay * (3 * RandDen + 2 * r)) \div (4 * RandDen)
  IN  IF errorType = "RATE_LIMIT"
        THEN (IF delay > RateLimitFloor THEN delay ELSE RateLimitFloor)
        ELSE delay

\* baseDelay + baseDelay * 0.25 * (rand - 0.5) * 2, rounded down
\*   = floor(baseDelay * (3 * RandDen + 2 * r) / (4 * RandDen))
calculateRetryDelay(attempt, cfg, errorType, r) ==
  LET baseDelay == Min(cfg.initialDelayMs * Pow(cfg.backoffMultiplier, attempt),
                       cfg.maxDelayMs)
      delay == (baseDelay * (3 * RandDen + 2 * r)) \div (4 * RandDen)
  IN  IF errorType = "RATE_LIMIT" THEN Max(delay, RateLimitFloor) ELSE delay

\* types.ts DEFAULT_RETRY_CONFIG with maxRetries as a parameter
RetryConfig(maxRetries) ==
  [maxRetries |-> maxRetries, initialDelayMs |-> 1000, maxDelayMs |-> 30000,
   backoffMultiplier |-> 2]

\* ------------------------------------------------------------ state
VARIABLES
  limits,             \* GeminiRateLimiter.limits (requestsPerMinute)
  config,             \* the RetryConfig the invoker runs with
  errorPool,          \* the error messages a remote call may fail with
  randPool,           \* the values r (Math.random() = r / RandDen) drawn
  requestQueue,       \* GeminiRateLimiter.requestQueue: tasks, oldest first
  requestTimestamps,  \* GeminiRateLimiter.requestTimestamps, as ages
  isProcessing,       \* GeminiRateLimiter.isProcessing
  loopPc,             \* where processQueue is suspended
  loopTimer,          \* remaining ms of the sleep processQueue is in
  current,            \* the task whose request() processQueue awaits (0: none)
  inv,                \* per task: its run of callGeminiWithRetry
  promise,            \* per task: the promise throttle returned
  waiting,            \* tasks submitted and not yet started, oldest first
  admitAges,          \* ages of the admissions of the last Window ms
  callAges            \* ages of the remote calls of the last Window ms

limiterVars ==
  <<limits, config, errorPool, randPool, requestQueue, requestTimestamps,
    isProcessing, loopPc, loopTimer, current, inv, promise, waiting,
    admitAges, callAges>>

\* State of the operations modelled further down on their own: one row of the
\* queries table with the callback that analyzes it.
VARIABLES
  item,      \* a row of queries: the columns an analysis writes
  callback   \* the batch.map callback for that row: position, queryRecord

itemVars == <<item, callback>>

\* State of generate-queries: the rows it inserts and its invocations.
VARIABLES
  rows,          \* the rows of queries of the project that generation inserted
  totalQueries,  \* query_projects.total_queries
  gen            \* per invocation of generate-queries: position and locals

genVars == <<rows, totalQueries, gen>>

\* A clock for runs that measure time from their start.
VARIABLE
  elapsed    \* ms since the run began, capped at Window; -1: not measured

\* State of the operations that are checked on inputs of their own.
VARIABLES
  input,     \* the arguments a pure function is applied to
  output,    \* what it gave: <<>> before it is applied
  topUp,     \* handleGenerateQueries: its locals and position
  reset      \* reset-stuck-queries: its locals and position

restVars == <<input, output, topUp, reset>>

extVars == <<itemVars, genVars, elapsed, restVars>>

NoError == <<>>

InvIdle ==
  [pc |-> "none", attempt |-> 0, calls |-> 0, sleeps |-> 0, timer |-> 0,
   lastError |-> NoError, retryMetadata |-> <<>>]

PromiseNone == [state |-> "none", error |-> NoError]

InitLimiterState ==
  /\ requestQueue = <<>>
  /\ requestTimestamps = <<>>
  /\ isProcessing = FALSE
  /\ loopPc = "idle"
  /\ loopTimer = 0
  /\ current = 0
  /\ inv = [t \in Tasks |-> InvIdle]
  /\ promise = [t \in Tasks |-> PromiseNone]
  /\ waiting = <<>>
  /\ admitAges = <<>>
  /\ callAges = <<>>

\* ------------------------------------------------------------ retrying invoker
\* callGeminiWithRetry, first iteration: attempt = 0 and callGeminiAPI's fetch
\* is issued.
StartInvoker == [InvIdle EXCEPT !.pc = "calling", !.calls = 1]

\* A loop that gives up one attempt early.
OutOfAttemptsEarly(attempt) == attempt + 1 >= config.maxRetries

\* if (attempt >= config.maxRetries) break
OutOfAttempts(attempt) == attempt >= config.maxRetries

\* The catch block of callGeminiWithRetry for an attempt that failed with
\* `message`; r is the random draw of calculateRetryDelay.
CatchAttempt(i, message, r) ==
  LET errorType == detectErrorType(message)
      failed == [i EXCEPT !.lastError = <<message>>,
                          !.retryMetadata =
                             Append(@, [attempt |-> i.attempt,
                                        errorType |-> errorType,
                                        errorMessage |-> message])]
  IN  IF OutOfAttempts(i.attempt)
        THEN \* break, then throw lastError after the loop
             [failed EXCEPT !.pc = "thrown"]
      ELSE IF ~shouldRetry(errorType)
        THEN [failed EXCEPT !.pc = "thrown"]
      ELSE [failed EXCEPT !.pc = "sleeping", !.sleeps = i.sleeps + 1,
                          !.timer = calculateRetryDelay(i.attempt, config,
                                                        errorType, r)]

\* A remote call's promise settles: with a validated result, or with an error.
AttemptSucceeds(t) ==
  /\ inv[t].pc = "calling"
  /\ inv' = [inv EXCEPT ![t].pc = "returned"]
  /\ promise' = [promise EXCEPT ![t] = [state |-> "resolved", error |-> NoError]]
  /\ UNCHANGED <<limits, config, errorPool, randPool, requestQueue,
                 requestTimestamps, isProcessing, loopPc, loopTimer, current,
                 waiting, admitAges, callAges>>

AttemptFails(t) ==
  /\ inv[t].pc = "calling"
  /\ \E message \in errorPool, r \in randPool :
       LET next == CatchAttempt(inv[t], message, r) IN
       /\ inv' = [inv EXCEPT ![t] = next]
       /\ promise' =
            IF next.pc = "thrown"
              THEN [promise EXCEPT ![t] =
                      [state |-> "rejected", error |-> next.lastError]]
              ELSE promise
  /\ UNCHANGED <<limits, config, errorPool, randPool, requestQueue,
                 requestTimestamps, isProcessing, loopPc, loopTimer, current,
                 waiting, admitAges, callAges>>

\* sleep(delay) is over: attempt++ and, the loop condition holding, the next
\* remote call is issued.
RetryAfterSleep(t) ==
  /\ inv[t].pc = "sleeping"
  /\ inv[t].timer = 0
  /\ inv[t].attempt + 1 <= config.maxRetries
  /\ inv' = [inv EXCEPT ![t].pc = "calling", ![t].attempt = @ + 1,
                        ![t].calls = @ + 1]
  /\ callAges' = Append(callAges, 0)
  /\ UNCHANGED <<limits, config, errorPool, randPool, requestQueue,
                 requestTimestamps, isProcessing, loopPc, loopTimer, current,
                 promise, waiting, admitAges>>

\* ------------------------------------------------------------ rate limiter
\* this.requestTimestamps.filter((ts) => now - ts < 60000)
PruneTimestamps(ts) == SelectSeq(ts, LAMBDA age : age < Window)

\* if (this.requestTimestamps.length >= this.limits.requestsPerMinute)
WindowFullLate(ts) == Len(ts) > limits.requestsPerMinute

WindowFull(ts) == Len(ts) >= limits.requestsPerMinute

\* 60000 - (now - oldestRequest) + 100, oldestRequest = requestTimestamps[0]
WaitTime(ts) == Window - ts[1] + Buffer

\* this.requestQueue.pop() in place of shift()
Pop(q) == [request |-> q[Len(q)], rest |-> SubSeq(q, 1, Len(q) - 1)]

\* this.requestQueue.shift(): the element removed and the queue left
Shift(q) == [request |-> Head(q), rest |-> Tail(q)]

\* One pass of the body of processQueue's while loop over queue q, up to its
\* next await: the window sleep, or request() of the dequeued function, which
\* runs the function up to the fetch of its first remote call.  w is the list
\* of the tasks submitted and not yet started.
LoopIteration(q, w) ==
  LET pruned == PruneTimestamps(requestTimestamps) IN
  IF WindowFull(pruned)
    THEN /\ loopPc' = "windowSleep"
         /\ loopTimer' = WaitTime(pruned)
         /\ requestTimestamps' = pruned
         /\ requestQueue' = q
         /\ waiting' = w
         /\ UNCHANGED <<current, inv, admitAges, callAges>>
    ELSE LET request == Shift(q).request IN
         /\ requestQueue' = Shift(q).rest
         /\ requestTimestamps' = Append(pruned, 0)
         /\ loopPc' = "request"
         /\ loopTimer' = 0
         /\ current' = request
         /\ inv' = [inv EXCEPT ![request] = StartInvoker]
         /\ waiting' = SelectSeq(w, LAMBDA x : x # request)
         /\ admitAges' = Append(admitAges, 0)
         /\ callAges' = Append(callAges, 0)

\* while (this.requestQueue.length > 0) { ... }  this.isProcessing = false
LoopWhile(q, w) ==
  IF Len(q) > 0
    THEN /\ isProcessing' = TRUE
         /\ LoopIteration(q, w)
    ELSE /\ isProcessing' = FALSE
         /\ loopPc' = "idle"
         /\ loopTimer' = 0
         /\ requestQueue' = q
         /\ waiting' = w
         /\ UNCHANGED <<requestTimestamps, current, inv, admitAges, callAges>>

\* throttle(fn): push the wrapper, call processQueue().
Throttle(t) ==
  /\ promise[t].state = "none"
  /\ promise' = [promise EXCEPT ![t].state = "pending"]
  /\ IF isProcessing
       THEN \* processQueue returns at once
            /\ requestQueue' = Append(requestQueue, t)
            /\ waiting' = Append(waiting, t)
            /\ UNCHANGED <<requestTimestamps, isProcessing, loopPc, loopTimer,
                           current, inv, admitAges, callAges>>
       ELSE LoopWhile(Append(requestQueue, t), Append(waiting, t))
  /\ UNCHANGED <<limits, config, errorPool, randPool>>

\* sleep(waitTime) is over: continue.
WakeWindow ==
  /\ loopPc = "windowSleep"
  /\ loopTimer = 0
  /\ LoopWhile(requestQueue, waiting)
  /\ UNCHANGED <<limits, config, errorPool, randPool, promise>>

\* A wrapper without the catch: only a function that returned lets the loop on.
RequestSettledByReturn(i) == i.pc = "returned"

\* The wrapper pushed by throttle: try { resolve(await fn()) } catch { reject }
\* settles whether fn returned or threw.
RequestSettled(i) == i.pc \in {"returned", "thrown"}

\* A loop that leaves isProcessing set when it ends.
AfterRequestKeepsFlag ==
  /\ loopPc = "request"
  /\ RequestSettled(inv[current])
  /\ current' = 0
  /\ IF Len(requestQueue) > 0
       THEN loopPc' = "gapSleep" /\ loopTimer' = Gap
       ELSE loopPc' = "idle" /\ loopTimer' = 0
  /\ UNCHANGED <<limits, config, errorPool, randPool, requestQueue, isProcessing,
                 requestTimestamps, inv, promise, waiting, admitAges, callAges>>

\* await request() is over (the wrapper caught whatever fn threw).
AfterRequest ==
  /\ loopPc = "request"
  /\ RequestSettled(inv[current])
  /\ current' = 0
  /\ IF Len(requestQueue) > 0
       THEN /\ loopPc' = "gapSleep"
            /\ loopTimer' = Gap
            /\ UNCHANGED isProcessing
       ELSE /\ loopPc' = "idle"
            /\ loopTimer' = 0
            /\ isProcessing' = FALSE
  /\ UNCHANGED <<limits, config, errorPool, randPool, requestQueue,
                 requestTimestamps, inv, promise, waiting, admitAges, callAges>>

\* sleep(200) is over: next pass of the while loop.
WakeGap ==
  /\ loopPc = "gapSleep"
  /\ loopTimer = 0
  /\ LoopWhile(requestQueue, waiting)
  /\ UNCHANGED <<limits, config, errorPool, randPool, promise>>

\* ------------------------------------------------------------ analyze-queries
VARIABLES
  status,   \* queries.analysis_status of each item of the project
  project,  \* the query_projects row: status, current_step
  call,     \* per invocation of analyze-queries: its position and locals
            \* (readAs: the analysis_status each selected row was read with)
  handler,  \* per invocation and item: position of the batch.map callback
  writes    \* per invocation and item: the statuses it wrote, in order

orchVars == <<status, project, call, handler, writes>>

vars ==
  <<limits, config, errorPool, randPool, requestQueue, requestTimestamps,
    isProcessing, loopPc, loopTimer, current, inv, promise, waiting,
    admitAges, callAges, status, project, call, handler, writes, extVars>>

\* analyze-queries/index.ts:182  setTimeout(resolve, 1000)
InterBatchPause == 1000

CallIdle ==
  [pc |-> "idle", query_ids |-> {}, queries |-> <<>>, readAs |-> <<>>,
   i |-> 0, timer |-> 0, analyzed |-> 0, errors |-> 0]

InitOrchState ==
  /\ status = [q \in Items |-> "pending"]
  /\ project = [status |-> "queries_generated", current_step |-> 2]
  /\ call = [c \in Calls |-> CallIdle]
  /\ handler = [c \in Calls |-> [q \in Items |-> "none"]]
  /\ writes = [c \in Calls |-> [q \in Items |-> <<>>]]

\* The rows a select returns, in id order.
RECURSIVE SeqOf(_)
SeqOf(S) ==
  IF S = {} THEN <<>>
  ELSE LET m == CHOOSE x \in S : \A y \in S : x <= y
       IN  <<m>> \o SeqOf(S \ {m})

\* A loop that hands every remaining row to one Promise.all.
BatchItemsRest(queries, i) ==
  {queries[k] : k \in {k \in 1..Len(queries) : i < k}}

\* queries.slice(i, i + batchSize), as the set of its items
BatchItems(queries, i) ==
  {queries[k] : k \in {k \in 1..Len(queries) : i < k /\ k <= i + batchSize}}

\* batch.map(async (queryRecord) => ...) runs every callback up to its first
\* await: the update to 'analyzing' of each item of the batch is in flight.
StartBatch(c, queries, i) ==
  handler' = [handler EXCEPT ![c] =
                [q \in Items |-> IF q \in BatchItems(queries, i)
                                   THEN "marking" ELSE handler[c][q]]]

\* A selection that also takes the rows that failed before.
PendingOrErrorQueries(query_ids) ==
  {q \in Items : /\ status[q] \in {"pending", "error"}
                 /\ (query_ids = {} \/ q \in query_ids)}

\* A selection without the filter on analysis_status.
AnyStatusQueries(query_ids) ==
  {q \in Items : query_ids = {} \/ q \in query_ids}

\* The select of the pending queries (optionally restricted to query_ids).
PendingQueries(query_ids) ==
  {q \in Items : /\ status[q] = "pending"
                 /\ (query_ids = {} \/ q \in query_ids)}

\* The handler up to the first batch: fetch the project and the pending
\* queries; none: respond count 0.
Analyze(c, query_ids) ==
  /\ call[c].pc = "idle"
  /\ LET queries == SeqOf(PendingQueries(query_ids)) IN
       IF Len(queries) = 0
         THEN /\ call' = [call EXCEPT ![c].pc = "done0",
                                      ![c].query_ids = query_ids]
              /\ UNCHANGED handler
         ELSE /\ call' = [call EXCEPT ![c].pc = "batch",
                                      ![c].query_ids = query_ids,
                                      ![c].queries = queries,
                                      ![c].readAs =
                                         [k \in 1..Len(queries) |->
                                            status[queries[k]]],
                                      ![c].i = 0]
              /\ StartBatch(c, queries, 0)
  /\ UNCHANGED <<status, project, writes>>
  /\ UNCHANGED <<limiterVars, extVars>>

\* The store applies update({analysis_status: 'analyzing'}).eq('id', id); the
\* callback goes on to analyzeQueryWithRetry, that is to rateLimiter.throttle.
MarkAnalyzing(c, q) ==
  /\ handler[c][q] = "marking"
  /\ status' = [status EXCEPT ![q] = "analyzing"]
  /\ writes' = [writes EXCEPT ![c][q] = Append(@, "analyzing")]
  /\ handler' = [handler EXCEPT ![c][q] = "throttled"]
  /\ Throttle(TaskOf(c, q))
  /\ UNCHANGED <<project, call, extVars>>

\* The callback has taken the outcome of analyzeQueryWithRetry: the settled
\* promise and the locals of the finished run are garbage.
Consume(t) ==
  /\ promise' = [promise EXCEPT ![t] = [state |-> "consumed", error |-> NoError]]
  /\ inv' = [inv EXCEPT ![t] = [InvIdle EXCEPT !.pc = "finished"]]
  /\ UNCHANGED <<limits, config, errorPool, randPool, requestQueue,
                 requestTimestamps, isProcessing, loopPc, loopTimer, current,
                 waiting, admitAges, callAges>>

\* analyzeQueryWithRetry resolved: the store applies the update to 'complete'.
WriteComplete(c, q) ==
  /\ handler[c][q] = "throttled"
  /\ promise[TaskOf(c, q)].state = "resolved"
  /\ status' = [status EXCEPT ![q] = "complete"]
  /\ writes' = [writes EXCEPT ![c][q] = Append(@, "complete")]
  /\ handler' = [handler EXCEPT ![c][q] = "done"]
  /\ call' = [call EXCEPT ![c].analyzed = @ + 1]
  /\ Consume(TaskOf(c, q))
  /\ UNCHANGED <<project, extVars>>

\* A catch block that rethrows: Promise.all rejects and the handler's outer
\* catch answers 500.
WriteErrorRethrows(c, q) ==
  /\ handler[c][q] = "throttled"
  /\ promise[TaskOf(c, q)].state = "rejected"
  /\ handler' = [handler EXCEPT ![c][q] = "done"]
  /\ call' = [call EXCEPT ![c].pc = "failed"]
  /\ Consume(TaskOf(c, q))
  /\ UNCHANGED <<status, writes, project, extVars>>

\* analyzeQueryWithRetry rejected: the catch block; the store applies the
\* update to 'error' with the fallback result.
WriteError(c, q) ==
  /\ handler[c][q] = "throttled"
  /\ promise[TaskOf(c, q)].state = "rejected"
  /\ status' = [status EXCEPT ![q] = "error"]
  /\ writes' = [writes EXCEPT ![c][q] = Append(@, "error")]
  /\ handler' = [handler EXCEPT ![c][q] = "done"]
  /\ call' = [call EXCEPT ![c].errors = @ + 1]
  /\ Consume(TaskOf(c, q))
  /\ UNCHANGED <<project, extVars>>

\* Promise.all of the batch resolved: pause before the next batch, or go on to
\* the completion check.
BatchDone(c) ==
  /\ call[c].pc = "batch"
  /\ \A q \in BatchItems(call[c].queries, call[c].i) : handler[c][q] = "done"
  /\ IF call[c].i + batchSize < Len(call[c].queries)
       THEN call' = [call EXCEPT ![c].pc = "pause", ![c].timer = InterBatchPause]
       ELSE call' = [call EXCEPT ![c].pc = "checking"]
  /\ UNCHANGED <<status, project, handler, writes>>
  /\ UNCHANGED <<limiterVars, extVars>>

\* The pause is over: i += batchSize and the next batch starts.
NextBatch(c) ==
  /\ call[c].pc = "pause"
  /\ call[c].timer = 0
  /\ call' = [call EXCEPT ![c].pc = "batch", ![c].i = @ + batchSize]
  /\ StartBatch(c, call[c].queries, call[c].i + batchSize)
  /\ UNCHANGED <<status, project, writes>>
  /\ UNCHANGED <<limiterVars, extVars>>

\* The select of the project's queries in status pending or analyzing.
RemainingQueries == {q \in Items : status[q] \in {"pending", "analyzing"}}

\* What the select resolves to: { data } with the rows, or, when the request
\* to the store fails, data null (the handler does not read error here).
SelectRemaining ==
  {[data |-> RemainingQueries, isNull |-> FALSE], [data |-> {}, isNull |-> TRUE]}

\* if (!remainingQueries || remainingQueries.length === 0) update the project
CheckRemaining(c) ==
  /\ call[c].pc = "checking"
  /\ \E remainingQueries \in SelectRemaining :
       IF remainingQueries.isNull \/ Cardinality(remainingQueries.data) = 0
         THEN call' = [call EXCEPT ![c].pc = "updatingProject"]
         ELSE call' = [call EXCEPT ![c].pc = "done"]
  /\ UNCHANGED <<status, project, handler, writes>>
  /\ UNCHANGED <<limiterVars, extVars>>

\* The store applies the project update; the success response follows.
UpdateProject(c) ==
  /\ call[c].pc = "updatingProject"
  /\ project' = [status |-> "analysis_complete", current_step |-> 3]
  /\ call' = [call EXCEPT ![c].pc = "done"]
  /\ UNCHANGED <<status, handler, writes>>
  /\ UNCHANGED <<limiterVars, extVars>>

\* ------------------------------------------------------------ analysis results
\* The columns of one row that an analysis writes, and the callback of
\* analyze-queries for that row, with the data the batch model leaves out.
Null == "null"

\* queries.query_type and queries.query_category: the values the CHECK
\* constraints of the table admit (NULL passes a CHECK).
QueryTypes == {"Educational", "Service-Aligned"}
QueryCategories ==
  {"Industry monitoring", "Competitor benchmarking", "Trend explanation"}

\* JavaScript a || b
Truthy(v) == v \notin {Null, ""}
OrElse(a, b) == IF Truthy(a) THEN a ELSE b

\* Array.prototype.join(", ")
RECURSIVE Join(_)
Join(list) ==
  IF Len(list) = 0 THEN ""
  ELSE IF Len(list) = 1 THEN list[1]
  ELSE list[1] \o ", " \o Join(Tail(list))

\* A fallback that carries no defaults.
generateFallbackResultBare(originalQuery) ==
  [brand_mentions |-> <<"Analysis unavailable">>,
   source |-> "Unable to determine",
   query_type |-> originalQuery.query_type,
   query_category |-> originalQuery.query_category]

generateFallbackResult(originalQuery) ==
  [brand_mentions |-> <<"Analysis unavailable">>,
   source |-> "Unable to determine",
   query_type |-> OrElse(originalQuery.query_type, "Educational"),
   query_category |-> OrElse(originalQuery.query_category,
                             "Industry monitoring")]

\* Results validateAndSanitize returns: brands trimmed and non-empty (or the
\* one default), a non-empty source, type and category from the valid lists.
Analyses ==
  [brand_mentions : {<<"No specific brands identified">>, <<"Acme", "Globex">>},
   source : {"Unknown", "Search engines"},
   query_type : QueryTypes,
   query_category : {"Industry monitoring", "Trend explanation"}]

\* The row passes the CHECK constraints of the table.
RowCheck(row) ==
  /\ row.query_type \in QueryTypes \cup {Null}
  /\ row.query_category \in QueryCategories \cup {Null}
  /\ row.analysis_status \in {"pending", "analyzing", "complete", "error"}

\* update(values).eq("id", id): applied when the new row passes the CHECKs,
\* otherwise refused (the client returns the error, it does not throw).
StoreUpdate(row, values) ==
  LET new == [f \in DOMAIN row |->
                IF f \in DOMAIN values THEN values[f] ELSE row[f]]
  IN  IF RowCheck(new) THEN new ELSE row

\* The update of the try block after analyzeQueryWithRetry resolved.
CompleteValues(analysis) ==
  [brand_mentions |-> Join(analysis.brand_mentions),
   source |-> analysis.source,
   query_type |-> analysis.query_type,
   query_category |-> analysis.query_category,
   analysis_status |-> "complete"]

\* The update of the catch block.
ErrorValues(queryRecord) ==
  LET fallback == generateFallbackResult(queryRecord) IN
  [brand_mentions |-> Join(fallback.brand_mentions),
   source |-> fallback.source,
   query_type |-> fallback.query_type,
   query_category |-> fallback.query_category,
   analysis_status |-> "error"]

CallbackIdle == [pc |-> "idle", queryRecord |-> Null, error |-> NoError]

\* A pending row as generate-queries or the client leaves it.
PendingRows ==
  [brand_mentions : {Null}, source : {Null},
   query_type : QueryTypes \cup {Null},
   query_category : QueryCategories \cup {Null},
   analysis_status : {"pending"}]

InitItemState ==
  /\ item = [brand_mentions |-> Null, source |-> Null, query_type |-> Null,
             query_category |-> Null, analysis_status |-> "pending"]
  /\ callback = CallbackIdle

\* select("*") ... .eq("analysis_status", "pending") returned the row.
SelectItem ==
  /\ callback.pc = "idle"
  /\ item.analysis_status = "pending"
  /\ callback' = [callback EXCEPT !.pc = "selected", !.queryRecord = item]
  /\ UNCHANGED item

\* The update to 'analyzing', then analyzeQueryWithRetry.
MarkItem ==
  /\ callback.pc = "selected"
  /\ item' = StoreUpdate(item, [analysis_status |-> "analyzing"])
  /\ callback' = [callback EXCEPT !.pc = "analyzing"]

\* Another invocation that selected the same row completes it meanwhile.
OtherCompletes ==
  /\ callback.pc \in {"selected", "analyzing"}
  /\ item.analysis_status # "complete"
  /\ \E analysis \in Analyses :
       item' = StoreUpdate(item, CompleteValues(analysis))
  /\ UNCHANGED callback

\* analyzeQueryWithRetry resolved with a validated analysis.
ItemSucceeds ==
  /\ callback.pc = "analyzing"
  /\ \E analysis \in Analyses :
       item' = StoreUpdate(item, CompleteValues(analysis))
  /\ callback' = [callback EXCEPT !.pc = "complete"]

\* analyzeQueryWithRetry rejected: the catch block persists the fallback.
ItemFails ==
  /\ callback.pc = "analyzing"
  /\ \E message \in AllMessages :
       callback' = [callback EXCEPT !.pc = "error", !.error = <<message>>]
  /\ item' = StoreUpdate(item, ErrorValues(callback.queryRecord))

\* ------------------------------------------------------------ analysis sanitizer
\* A JavaScript string is a sequence of pieces.  A piece is one character
\* (" ", "," or "a"), a markdown fence ("[fence]"), or a whole word that the
\* sanitizer compares with: a valid type or category, its lower-cased form, or
\* a fragment of one.  Strings of more pieces than SourceCap are made of
\* one-character pieces only, so that their length is their number of pieces.
\* A JavaScript value is [t, s, a]: its typeof/kind, its pieces when it is a
\* string, its elements when it is an array.
Value(t, s, a) == [t |-> t, s |-> s, a |-> a]

\* types.ts VALID_QUERY_TYPES, VALID_QUERY_CATEGORIES ("-" stands for the dash)
VALID_QUERY_TYPES == <<"Educational", "Service-Aligned">>
VALID_QUERY_CATEGORIES ==
  <<"Industry monitoring", "Competitor benchmarking", "Operational training",
    "Foundational understanding", "Real-world learning examples",
    "Educational - people-focused", "Trend explanation",
    "Pain-point focused - commercial intent",
    "Product or vendor-related - lead intent",
    "Decision-stage - ready to buy or engage">>

\* String.prototype.toLowerCase, piece by piece
toLowerCase(s) ==
  LET LowerPiece(p) ==
        CASE p = "Educational" -> "educational"
          [] p = "Service-Aligned" -> "service-aligned"
          [] p = "Industry monitoring" -> "industry monitoring"
          [] p = "Competitor benchmarking" -> "competitor benchmarking"
          [] p = "Operational training" -> "operational training"
          [] p = "Foundational understanding" -> "foundational understanding"
          [] p = "Real-world learning examples"
               -> "real-world learning examples"
          [] p = "Educational - people-focused"
               -> "educational - people-focused"
          [] p = "Trend explanation" -> "trend explanation"
          [] p = "Pain-point focused - commercial intent"
               -> "pain-point focused - commercial intent"
          [] p = "Product or vendor-related - lead intent"
               -> "product or vendor-related - lead intent"
          [] p = "Decision-stage - ready to buy or engage"
               -> "decision-stage - ready to buy or engage"
          [] OTHER -> p
  IN  [i \in 1..Len(s) |-> LowerPiece(s[i])]

\* String.prototype.includes on lower-cased strings: the empty string is in
\* every string; otherwise the pieces of needle occur in a row in hay, or
\* needle is one piece whose text lies inside a piece of hay.
includes(hay, needle) ==
  LET WithA ==
        {"educational", "service-aligned", "competitor benchmarking",
         "operational training", "foundational understanding",
         "real-world learning examples", "educational - people-focused",
         "trend explanation", "pain-point focused - commercial intent",
         "product or vendor-related - lead intent",
         "decision-stage - ready to buy or engage"}
      WithSpace ==
        {"industry monitoring", "competitor benchmarking",
         "operational training", "foundational understanding",
         "real-world learning examples", "educational - people-focused",
         "trend explanation", "pain-point focused - commercial intent",
         "product or vendor-related - lead intent",
         "decision-stage - ready to buy or engage"}
      Inside(h, n) ==
        \/ n = "service" /\ h = "service-aligned"
        \/ n = "aligned" /\ h = "service-aligned"
        \/ n = "educational" /\ h = "educational - people-focused"
        \/ n = "monitoring" /\ h = "industry monitoring"
        \/ n = "a" /\ h \in WithA
        \/ n = " " /\ h \in WithSpace
  IN  \/ Len(needle) = 0
      \/ \E i \in 1..(Len(hay) - Len(needle) + 1) :
           SubSeq(hay, i, i + Len(needle) - 1) = needle
      \/ Len(needle) = 1 /\ \E i \in 1..Len(hay) : Inside(hay[i], needle[1])

\* String.prototype.trim
Trim(s) ==
  LET kept == {i \in 1..Len(s) : s[i] # " "}
      first == CHOOSE i \in kept : \A j \in kept : i <= j
      last == CHOOSE i \in kept : \A j \in kept : i >= j
  IN  IF kept = {} THEN <<>> ELSE SubSeq(s, first, last)

\* String.prototype.split(','): the pieces between the commas
RECURSIVE Split(_, _)
Split(s, acc) ==
  IF Len(s) = 0 THEN <<acc>>
  ELSE IF Head(s) = "," THEN <<acc>> \o Split(Tail(s), <<>>)
  ELSE Split(Tail(s), Append(acc, Head(s)))

\* Array.prototype.slice(0, n) and String.prototype.substring(0, n)
Slice(list, n) == IF Len(list) <= n THEN list ELSE SubSeq(list, 1, n)

\* validation.ts:64,71  .slice(0, 20)
BrandCap == 20
\* validation.ts:82     .substring(0, 500)
SourceCap == 500

\* Array.prototype.includes(s) for a list of one-piece strings
InList(list, s) == \E i \in 1..Len(list) : s = <<list[i]>>

\* What validateAndSanitize gives: the four fields, or an exception.
Threw ==
  [threw |-> TRUE, brand_mentions |-> <<>>, source |-> <<>>,
   query_type |-> <<>>, query_category |-> <<>>]

\* A parsed response is [t, f]: its kind and, for an object, its properties.
\* Reading a property of null throws a TypeError; reading one of a number or
\* of an array gives undefined.
validateAndSanitize(parsed) ==
  IF parsed.t \in {"null", "undefined"} THEN Threw
  ELSE
    LET Property(name) ==
          IF parsed.t = "object" THEN parsed.f[name]
          ELSE Value("undefined", <<>>, <<>>)
        bm == Property("brand_mentions")
        src == Property("source")
        qt == Property("query_type")
        qc == Property("query_category")
        found ==
          IF bm.t = "array"
            THEN LET kept == SelectSeq(bm.a, LAMBDA b :
                               b.t = "string" /\ Len(Trim(b.s)) > 0)
                 IN  Slice([i \in 1..Len(kept) |-> Trim(kept[i].s)], BrandCap)
          ELSE IF bm.t = "string"
            THEN LET parts == Split(bm.s, <<>>)
                     trimmed == [i \in 1..Len(parts) |-> Trim(parts[i])]
                 IN  Slice(SelectSeq(trimmed, LAMBDA b : Len(b) > 0), BrandCap)
          ELSE <<>>
        brandMentions ==
          IF Len(found) = 0
            THEN << <<"No specific brands identified">> >>
            ELSE found
        source ==
          IF src.t = "string" /\ Len(Trim(src.s)) > 0
            THEN Slice(Trim(src.s), SourceCap)
            ELSE <<"Unknown">>
        queryType ==
          IF qt.t = "string" /\ InList(VALID_QUERY_TYPES, qt.s) THEN qt.s
          ELSE IF qt.t = "string"
            THEN LET normalized == toLowerCase(qt.s)
                 IN  IF includes(normalized, <<"service">>)
                          \/ includes(normalized, <<"aligned">>)
                       THEN <<"Service-Aligned">>
                       ELSE <<"Educational">>
          ELSE <<"Educational">>
        queryCategory ==
          IF qc.t = "string"
            THEN LET normalized == Trim(qc.s)
                     lowerNormalized == toLowerCase(normalized)
                     \* VALID_QUERY_CATEGORIES.find: the first that matches
                     match ==
                       {i \in 1..Len(VALID_QUERY_CATEGORIES) :
                          LET cat == toLowerCase(<<VALID_QUERY_CATEGORIES[i]>>)
                          IN  \/ cat = lowerNormalized
                              \/ includes(lowerNormalized, cat)
                              \/ includes(cat, lowerNormalized)}
                     first == CHOOSE i \in match : \A j \in match : i <= j
                 IN  IF InList(VALID_QUERY_CATEGORIES, normalized)
                       THEN normalized
                     ELSE IF match # {}
                       THEN <<VALID_QUERY_CATEGORIES[first]>>
                     ELSE <<"Industry monitoring">>
            ELSE <<"Industry monitoring">>
    IN  [threw |-> FALSE, brand_mentions |-> brandMentions, source |-> source,
         query_type |-> queryType, query_category |-> queryCategory]

\* extractJSON on the text JSON.stringify gives for a result: the fences that
\* occur in its strings are removed (its second replace); the braces it then
\* matches are those of the whole object.
extractJSON(s) == SelectSeq(s, LAMBDA p : p # "[fence]")

\* safeJSONParse(extractJSON(JSON.stringify(result))): the object, with its
\* strings as extractJSON left them.
safeJSONParse(result) ==
  [t |-> "object",
   f |-> [brand_mentions |->
            Value("array", <<>>,
                  [i \in 1..Len(result.brand_mentions) |->
                     Value("string", extractJSON(result.brand_mentions[i]),
                           <<>>)]),
          source |-> Value("string", extractJSON(result.source), <<>>),
          query_type |-> Value("string", extractJSON(result.query_type), <<>>),
          query_category |->
            Value("string", extractJSON(result.query_category), <<>>)]]

\* ------------------------------------------------------------ generate-queries
\* Number of invocations of generate-queries.
NumGen == 2
\* Largest total_queries of the project.
MaxTarget == 2

GenCalls == 1..NumGen

\* The throttled function of invocation g of generate-queries.
GenTask(g) == g

\* query_projects.status and current_step pass their CHECK constraints.
ProjectCheck(p) ==
  /\ p.status \in {"draft", "generating", "queries_generated",
                   "analysis_complete", "archived"}
  /\ p.current_step \in {1, 2, 3}

\* update(values).eq("id", project_id) on query_projects: refused when the new
\* row violates a CHECK (the handler does not read the error).
UpdateProjectRow(p, values) ==
  LET new == [f \in DOMAIN p |-> IF f \in DOMAIN values THEN values[f] ELSE p[f]]
  IN  IF ProjectCheck(new) THEN new ELSE p

\* What the model may answer: a JSON array of up to MaxTarget + 1 records, each
\* with the query_id the model chose and a query_text that may be blank.
ModelRecords == [query_id : {0, 5}, query_text : {"", "a", "b"}]

ModelResponses ==
  UNION {[1..n -> ModelRecords] : n \in 1..(MaxTarget + 1)}

\* validateGeneratedQuery: null (here the empty list) for a blank query_text,
\* otherwise the sanitized record, which has no query_id.
validateGeneratedQuery(query) ==
  IF query.query_text = "" THEN <<>> ELSE <<[query_text |-> query.query_text]>>

\* validateGeneratedQueries: the records that validate, in order.
RECURSIVE validateGeneratedQueries(_)
validateGeneratedQueries(parsed) ==
  IF Len(parsed) = 0 THEN <<>>
  ELSE validateGeneratedQuery(Head(parsed))
         \o validateGeneratedQueries(Tail(parsed))

\* generatedQueries.map((q, index) => ({ query_id: index + 1, ... }))
queriesWithProjectId(generatedQueries, g) ==
  [index \in 1..Len(generatedQueries) |->
     [query_id |-> index, query_text |-> generatedQueries[index].query_text,
      batch |-> g]]

\* UNIQUE (project_id, query_id): these rows can be added to the table.
UniqueQueryIds(table, new) ==
  /\ \A j, k \in 1..Len(new) : j # k => new[j].query_id # new[k].query_id
  /\ \A k \in 1..Len(new) : \A r \in table : r.query_id # new[k].query_id

\* project.total_queries || 20
DefaultTarget == 20
TargetCount(total_queries) ==
  IF total_queries = 0 THEN DefaultTarget ELSE total_queries

\* existing: the rows the project held when the invocation began; alone: no
\* other invocation was running then.
GenIdle ==
  [pc |-> "idle", existing |-> 0, alone |-> FALSE, target |-> 0,
   generated |-> <<>>]

InitGenState ==
  /\ rows = {}
  /\ totalQueries = 0
  /\ gen = [g \in GenCalls |-> GenIdle]

InitRestState ==
  /\ input = <<>>
  /\ output = <<>>
  /\ topUp = <<>>
  /\ reset = <<>>

InitExtState == InitItemState /\ InitGenState /\ elapsed = -1 /\ InitRestState

\* The handler up to the throttled generation: fetch the project, set its
\* status to 'generating', submit generateQueriesWithRetry to the limiter.
GenStart(g) ==
  /\ gen[g].pc = "idle"
  /\ gen' = [gen EXCEPT ![g].pc = "generating",
                        ![g].existing = Cardinality(rows),
                        ![g].alone =
                           \A b \in GenCalls \ {g} :
                             gen[b].pc \in {"idle", "done", "failed"},
                        ![g].target = TargetCount(totalQueries)]
  /\ project' = UpdateProjectRow(project, [status |-> "generating"])
  /\ Throttle(GenTask(g))
  /\ UNCHANGED <<rows, totalQueries, status, call, handler, writes, itemVars,
                 elapsed, restVars>>

\* The throttle promise rejected: set the project to 'error' and answer 500.
GenRejected(g) ==
  /\ gen[g].pc = "generating"
  /\ promise[GenTask(g)].state = "rejected"
  /\ project' = UpdateProjectRow(project, [status |-> "error"])
  /\ gen' = [gen EXCEPT ![g].pc = "failed"]
  /\ Consume(GenTask(g))
  /\ UNCHANGED <<rows, totalQueries, status, call, handler, writes, itemVars,
                 elapsed, restVars>>

\* The throttle promise resolved with the validated queries: number them and
\* insert them in one statement.
GenInsert(g) ==
  /\ gen[g].pc = "generating"
  /\ promise[GenTask(g)].state = "resolved"
  /\ \E response \in ModelResponses :
       LET generatedQueries == validateGeneratedQueries(response)
           new == queriesWithProjectId(generatedQueries, g)
       IN  /\ Len(generatedQueries) > 0
           /\ IF UniqueQueryIds(rows, new)
                THEN /\ rows' = rows \cup {new[k] : k \in 1..Len(new)}
                     /\ gen' = [gen EXCEPT ![g].pc = "inserted",
                                           ![g].generated = generatedQueries]
                ELSE /\ rows' = rows
                     /\ gen' = [gen EXCEPT ![g].pc = "insertError",
                                           ![g].generated = generatedQueries]
  /\ Consume(GenTask(g))
  /\ UNCHANGED <<totalQueries, project, status, call, handler, writes, itemVars,
                 elapsed, restVars>>

\* insertError: set the project to 'error' and answer 500.
GenInsertFailed(g) ==
  /\ gen[g].pc = "insertError"
  /\ project' = UpdateProjectRow(project, [status |-> "error"])
  /\ gen' = [gen EXCEPT ![g].pc = "failed"]
  /\ UNCHANGED <<rows, totalQueries, status, call, handler, writes, itemVars,
                 elapsed, restVars>>
  /\ UNCHANGED limiterVars

\* The rows are in: set the project to 'queries_generated' and answer 200.
GenFinish(g) ==
  /\ gen[g].pc = "inserted"
  /\ project' = UpdateProjectRow(project, [status |-> "queries_generated",
                                           current_step |-> 2])
  /\ totalQueries' = Len(gen[g].generated)
  /\ gen' = [gen EXCEPT ![g].pc = "done"]
  /\ UNCHANGED <<rows, status, call, handler, writes, itemVars, elapsed,
                 restVars>>
  /\ UNCHANGED limiterVars

\* ------------------------------------------------------------ time
ActiveTimers ==
  {x \in {loopTimer} \cup {inv[t].timer : t \in Tasks}
         \cup {call[c].timer : c \in Calls} : x > 0}

\* A remote call, or a request to the store, is in flight.
InFlight ==
  \/ \E t \in Tasks : inv[t].pc = "calling"
  \/ \E c \in Calls : call[c].pc \in {"batch", "checking", "updatingProject"}

Older(ages, d) == [k \in 1..Len(ages) |-> Min(ages[k] + d, Window)]

\* Time advances by d ms.  A timestamp that has left the window is dropped at
\* once: processQueue and getStatus filter the list before they read it.
Advance(d) ==
  /\ d > 0
  /\ loopTimer' = Max(loopTimer - d, 0)
  /\ inv' = [t \in Tasks |-> [inv[t] EXCEPT !.timer = Max(@ - d, 0)]]
  /\ call' = [c \in Calls |-> [call[c] EXCEPT !.timer = Max(@ - d, 0)]]
  /\ requestTimestamps' = PruneTimestamps(Older(requestTimestamps, d))
  /\ admitAges' = SelectSeq(Older(admitAges, d), LAMBDA age : age < Window)
  /\ callAges' = SelectSeq(Older(callAges, d), LAMBDA age : age < Window)
  /\ UNCHANGED <<limits, config, errorPool, randPool, requestQueue,
                 isProcessing, loopPc, current, promise, waiting,
                 status, project, handler, writes, itemVars, genVars,
                 restVars>>
  /\ elapsed' = IF elapsed < 0 THEN elapsed ELSE Min(elapsed + d, Window)

\* Time runs to the next expiry of a timer.
TickTimer ==
  \E d \in ActiveTimers :
    /\ \A x \in ActiveTimers : d <= x
    /\ Advance(d)

\* Time passes, short of the next expiry, while a call is in flight or a
\* caller has yet to arrive.
Step == Window \div 3

TickStep ==
  /\ InFlight \/ \E t \in 1..NumTasks : promise[t].state = "none"
  /\ \A x \in ActiveTimers : Step <= x
  /\ Advance(Step)

\* Timers fire no earlier than asked, and may fire late: time passes until
\* every timer has expired and every timestamp has left the window.
TickLate ==
  /\ ActiveTimers # {}
  /\ Advance(Window + Buffer)

\* ------------------------------------------------------------ specifications
\* (1) The retrying invoker alone: callGeminiWithRetry is called once, for
\* task 1, under every RetryConfig and every sequence of attempt outcomes.
InitInvoker ==
  /\ limits = [requestsPerMinute |-> MaxRPM]
  /\ config \in {RetryConfig(m) : m \in 0..MaxRetriesBound}
  /\ errorPool = AllMessages
  /\ randPool = 0..(RandDen - 1)
  /\ InitLimiterState
  /\ InitOrchState
  /\ InitExtState

Invoke ==
  /\ inv[1].pc = "none"
  /\ inv' = [inv EXCEPT ![1] = StartInvoker]
  /\ callAges' = Append(callAges, 0)
  /\ UNCHANGED <<limits, config, errorPool, randPool, requestQueue,
                 requestTimestamps, isProcessing, loopPc, loopTimer, current,
                 promise, waiting, admitAges>>
  /\ UNCHANGED <<orchVars, extVars>>

InvokerSucceeds == \E t \in Tasks : AttemptSucceeds(t) /\ UNCHANGED <<orchVars, extVars>>
InvokerFails == \E t \in Tasks : AttemptFails(t) /\ UNCHANGED <<orchVars, extVars>>
InvokerRetries == \E t \in Tasks : RetryAfterSleep(t) /\ UNCHANGED <<orchVars, extVars>>

NextInvoker ==
  \/ Invoke
  \/ InvokerSucceeds
  \/ InvokerFails
  \/ InvokerRetries
  \/ TickTimer

SpecInvoker == InitInvoker /\ [][NextInvoker]_vars

\* (2) The rate limiter: callers call throttle at any time with functions that
\* run callGeminiWithRetry (analyzeQueryWithRetry without an orchestrator).
InitLimiter ==
  /\ limits \in {[requestsPerMinute |-> r] : r \in 1..MaxRPM}
  /\ config = RetryConfig(1)
  /\ errorPool = {MsgParse, MsgAuth}
  /\ randPool = {RandDen \div 2}
  /\ InitLimiterState
  /\ InitOrchState
  /\ InitExtState

\* Callers are anonymous: the k-th throttle call submits task k.
ClientThrottle ==
  /\ \E t \in 1..NumTasks :
       /\ \A u \in 1..NumTasks : u < t => promise[u].state # "none"
       /\ Throttle(t)
  /\ UNCHANGED <<orchVars, extVars>>

LoopWakesWindow == WakeWindow /\ UNCHANGED <<orchVars, extVars>>
LoopAfterRequest == AfterRequest /\ UNCHANGED <<orchVars, extVars>>
LoopWakesGap == WakeGap /\ UNCHANGED <<orchVars, extVars>>

NextLimiter ==
  \/ ClientThrottle
  \/ LoopWakesWindow
  \/ LoopAfterRequest
  \/ LoopWakesGap
  \/ InvokerSucceeds
  \/ InvokerFails
  \/ InvokerRetries
  \/ TickTimer
  \/ TickStep

SpecLimiter == InitLimiter /\ [][NextLimiter]_vars

\* (3) analyze-queries: NumCalls invocations for the one project, overlapping
\* in any way, sharing the process-wide rateLimiter.
InitAnalyze ==
  /\ limits = [requestsPerMinute |-> MaxRPM]
  /\ config = RetryConfig(1)
  /\ errorPool = {MsgParse, MsgAuth}
  /\ randPool = {RandDen \div 2}
  /\ InitLimiterState
  /\ InitOrchState
  /\ InitExtState

\* The query_ids a request carries: none, or item 1 alone.
QueryIdChoices == {{}, {1}}

\* Invocations are anonymous: call c arrives after call c - 1.
Request ==
  \E c \in Calls, query_ids \in QueryIdChoices :
    /\ \A b \in Calls : b < c => call[b].pc # "idle"
    /\ Analyze(c, query_ids)

Mark == \E c \in Calls, q \in Items : MarkAnalyzing(c, q)
SaveComplete == \E c \in Calls, q \in Items : WriteComplete(c, q)
SaveError == \E c \in Calls, q \in Items : WriteError(c, q)
BatchSettles == \E c \in Calls : BatchDone(c)
PauseEnds == \E c \in Calls : NextBatch(c)
CompletionCheck == \E c \in Calls : CheckRemaining(c)
ProjectUpdate == \E c \in Calls : UpdateProject(c)

NextAnalyze ==
  \/ Request
  \/ Mark
  \/ SaveComplete
  \/ SaveError
  \/ BatchSettles
  \/ PauseEnds
  \/ CompletionCheck
  \/ ProjectUpdate
  \/ LoopWakesWindow
  \/ LoopAfterRequest
  \/ LoopWakesGap
  \/ InvokerSucceeds
  \/ InvokerFails
  \/ InvokerRetries
  \/ TickLate

SpecAnalyze == InitAnalyze /\ [][NextAnalyze]_vars

\* (4) The rate limiter under the scheduling the runtime guarantees: a timer
\* that has expired fires, time runs on to the next expiry, a microtask that is
\* ready runs, and every remote call returns (every admitted function
\* terminates).  Callers are not obliged to arrive.
SpecLimiterFair ==
  /\ SpecLimiter
  /\ WF_vars(LoopWakesWindow)
  /\ WF_vars(LoopAfterRequest)
  /\ WF_vars(LoopWakesGap)
  /\ WF_vars(InvokerRetries)
  /\ WF_vars(TickTimer)
  /\ WF_vars(InvokerSucceeds \/ InvokerFails)

\* (5) The callback of analyze-queries for one row, with the row's columns,
\* for every pending row the table admits and every outcome of the analysis.
InitItem ==
  /\ limits = [requestsPerMinute |-> MaxRPM]
  /\ config = RetryConfig(1)
  /\ errorPool = AllMessages
  /\ randPool = {RandDen \div 2}
  /\ InitLimiterState
  /\ InitOrchState
  /\ InitGenState
  /\ elapsed = -1
  /\ InitRestState
  /\ item \in PendingRows
  /\ callback = CallbackIdle

NextItem ==
  /\ \/ SelectItem
     \/ MarkItem
     \/ OtherCompletes
     \/ ItemSucceeds
     \/ ItemFails
  /\ UNCHANGED <<limiterVars, orchVars, genVars, elapsed, restVars>>

SpecItem == InitItem /\ [][NextItem]_vars

\* (6) generate-queries: NumGen invocations for the one project, one after
\* the other or overlapping, through the process-wide rateLimiter.
InitGenerate ==
  /\ limits = [requestsPerMinute |-> 1]
  /\ config = RetryConfig(1)
  /\ errorPool = {MsgParse, MsgNoText}
  /\ randPool = {RandDen \div 2}
  /\ InitLimiterState
  /\ status = [q \in Items |-> "pending"]
  /\ project = [status |-> "draft", current_step |-> 1]
  /\ call = [c \in Calls |-> CallIdle]
  /\ handler = [c \in Calls |-> [q \in Items |-> "none"]]
  /\ writes = [c \in Calls |-> [q \in Items |-> <<>>]]
  /\ InitItemState
  /\ rows = {}
  /\ totalQueries \in 1..MaxTarget
  /\ gen = [g \in GenCalls |-> GenIdle]
  /\ elapsed = -1
  /\ InitRestState

GenRequest ==
  \E g \in GenCalls :
    /\ \A b \in GenCalls : b < g => gen[b].pc # "idle"
    /\ GenStart(g)

GenerationRejected == \E g \in GenCalls : GenRejected(g)
InsertQueries == \E g \in GenCalls : GenInsert(g)
InsertFailed == \E g \in GenCalls : GenInsertFailed(g)
GenerationDone == \E g \in GenCalls : GenFinish(g)

NextGenerate ==
  \/ GenRequest
  \/ GenerationRejected
  \/ InsertQueries
  \/ InsertFailed
  \/ GenerationDone
  \/ LoopWakesWindow
  \/ LoopAfterRequest
  \/ LoopWakesGap
  \/ InvokerSucceeds
  \/ InvokerFails
  \/ InvokerRetries
  \/ TickTimer

SpecGenerate == InitGenerate /\ [][NextGenerate]_vars

\* (7) A burst on an idle limiter: requestsPerMinute + BurstExtra functions
\* that do nothing are passed to throttle in one synchronous run; then the
\* admission loop runs.  A function that does nothing settles as soon as it
\* is awaited: no time passes while it is in progress.
InitBurst ==
  /\ limits \in {[requestsPerMinute |-> r] : r \in 1..MaxRPM}
  /\ config = RetryConfig(0)
  /\ errorPool = {}
  /\ randPool = {0}
  /\ InitLimiterState
  /\ InitOrchState
  /\ InitItemState
  /\ InitGenState
  /\ elapsed = 0
  /\ InitRestState

BurstTasks == 1..(limits.requestsPerMinute + BurstExtra)

AllSubmitted == \A t \in BurstTasks : promise[t].state # "none"

BurstThrottle ==
  /\ \E t \in BurstTasks :
       /\ \A u \in BurstTasks : u < t => promise[u].state # "none"
       /\ Throttle(t)
  /\ UNCHANGED <<orchVars, extVars>>

\* Time passes while the loop sleeps: to the expiry of its timer, or part way.
\* The loop's steps that need no timer may fall between two submissions (a
\* caller that awaits anything between them lets the pending continuations
\* run); the clock moves only once the whole burst is submitted.
BurstTick ==
  /\ AllSubmitted
  /\ \A t \in Tasks : inv[t].pc # "calling"
  /\ \/ TickTimer
     \/ /\ \A x \in ActiveTimers : Step < x
        /\ ActiveTimers # {}
        /\ Advance(Step)

NextBurst ==
  \/ BurstThrottle
  \/ InvokerSucceeds
  \/ LoopAfterRequest
  \/ LoopWakesGap
  \/ LoopWakesWindow
  \/ BurstTick

SpecBurst == InitBurst /\ [][NextBurst]_vars

\* The specifications below apply one operation to inputs of its own; the
\* limiter, the tables and the handlers above stay as constructed.
progVars == <<limiterVars, orchVars, itemVars, genVars, elapsed>>

InitQuiet ==
  /\ limits = [requestsPerMinute |-> 1]
  /\ config = RetryConfig(0)
  /\ errorPool = {}
  /\ randPool = {0}
  /\ InitLimiterState
  /\ InitOrchState
  /\ InitItemState
  /\ InitGenState
  /\ elapsed = -1

\* (8) validateAndSanitize on parsed responses, and again on the serialized
\* result.
\* Longest string (in pieces) and longest array the inputs enumerate in full.
MaxPieces == 2

\* The parsed values: null, a number, an array, and objects in which the
\* brands and the source, or the type and the category, take every value
\* listed (strings and arrays up to MaxPieces long, and those that reach the
\* two caps).
ParsedValues ==
  LET Repeat(x, n) == [i \in 1..n |-> x]
      String(s) == Value("string", s, <<>>)
      Array(a) == Value("array", <<>>, a)
      Other ==
        {Value("undefined", <<>>, <<>>), Value("null", <<>>, <<>>),
         Value("number", <<>>, <<>>)}
      ShortStrings ==
        UNION {[1..n -> {" ", ",", "a"}] : n \in 0..MaxPieces}
          \cup {<<"[fence]">>, <<"a", "[fence]">>}
      ManyBrands ==
        [i \in 1..(2 * BrandCap + 1) |-> IF i % 2 = 1 THEN "a" ELSE ","]
      Elements ==
        {String(<<"a">>), String(<<" ">>), String(<<" ", "a">>), String(<<>>),
         String(<<"[fence]">>), Value("number", <<>>, <<>>),
         Value("null", <<>>, <<>>)}
      BrandValues ==
        Other
          \cup {String(s) : s \in ShortStrings \cup {ManyBrands}}
          \cup {Array(a) : a \in UNION {[1..n -> Elements] : n \in 0..MaxPieces}}
          \cup {Array(Repeat(String(<<"a">>), n)) : n \in {BrandCap, BrandCap + 1}}
      SourceValues ==
        Other
          \cup {String(s) : s \in ShortStrings}
          \cup {String(Repeat("a", n) \o tail) :
                  n \in {SourceCap - 2, SourceCap - 1},
                  tail \in {<<>>, <<"a">>, <<"a", "a">>, <<" ", "a">>,
                            <<"a", " ">>}}
      TypeValues ==
        Other
          \cup {String(s) : s \in {<<>>, <<"a">>, <<"Educational">>,
                                   <<"Service-Aligned">>, <<"educational">>,
                                   <<"service">>, <<" ", "aligned">>}}
      CategoryValues ==
        Other
          \cup {String(s) : s \in {<<>>, <<"a">>, <<",">>,
                                   <<"Trend explanation">>,
                                   <<" ", "Trend explanation">>,
                                   <<"trend explanation">>, <<"monitoring">>}}
      NoProperties ==
        [brand_mentions |-> Value("undefined", <<>>, <<>>),
         source |-> Value("undefined", <<>>, <<>>),
         query_type |-> Value("undefined", <<>>, <<>>),
         query_category |-> Value("undefined", <<>>, <<>>)]
  IN  {[t |-> k, f |-> NoProperties] : k \in {"null", "number", "array"}}
        \cup {[t |-> "object",
               f |-> [NoProperties EXCEPT !.brand_mentions = b,
                                          !.source = src]] :
                b \in BrandValues, src \in SourceValues}
        \cup {[t |-> "object",
               f |-> [NoProperties EXCEPT !.query_type = qt,
                                          !.query_category = qc]] :
                qt \in TypeValues, qc \in CategoryValues}

InitSanitize ==
  /\ InitQuiet
  /\ input \in ParsedValues
  /\ output = <<>>
  /\ topUp = <<>>
  /\ reset = <<>>

\* validateAndSanitize(parsed)
Sanitize ==
  /\ output = <<>>
  /\ output' = <<validateAndSanitize(input)>>
  /\ UNCHANGED <<progVars, input, topUp, reset>>

\* validateAndSanitize(JSON.stringify(result)) on the result of the first run
Resanitize ==
  /\ Len(output) = 1
  /\ ~output[1].threw
  /\ output' = Append(output, validateAndSanitize(safeJSONParse(output[1])))
  /\ UNCHANGED <<progVars, input, topUp, reset>>

NextSanitize ==
  \/ Sanitize
  \/ Resanitize

SpecSanitize == InitSanitize /\ [][NextSanitize]_vars

\* (9) The catch block's two calculations on inputs of their own: the class
\* of an error message, then the delay for that class.
\* Most classifier substrings in one message, and the largest attempt number.
MaxMarkers == 2
MaxAttempt == 3

InitCatch ==
  /\ InitQuiet
  /\ input \in
       [message : {m \in SUBSET Markers : Cardinality(m) <= MaxMarkers},
        attempt : 0..MaxAttempt,
        cfg : [maxRetries : {MaxAttempt}, initialDelayMs : {1000, 50000},
               maxDelayMs : {30000, 120000}, backoffMultiplier : {1, 2}],
        r : 0..(RandDen - 1)]
  /\ output = <<>>
  /\ topUp = <<>>
  /\ reset = <<>>

\* const errorType = detectErrorType(lastError)
Classify ==
  /\ output = <<>>
  /\ output' = <<detectErrorType(input.message)>>
  /\ UNCHANGED <<progVars, input, topUp, reset>>

\* const delay = calculateRetryDelay(attempt, config, errorType)
Calculate ==
  /\ Len(output) = 1
  /\ output' = Append(output, calculateRetryDelay(input.attempt, input.cfg,
                                                  output[1], input.r))
  /\ UNCHANGED <<progVars, input, topUp, reset>>

NextCatch ==
  \/ Classify
  \/ Calculate

SpecCatch == InitCatch /\ [][NextCatch]_vars

\* (10) The top-up loop of handleGenerateQueries (and, with targetCount for
\* count, of handleGenerateFullQueries): a first InvokeLLM call, then
\* supplementary calls while records are missing.
\* Largest target count, and most records one response carries.
MaxCount == 5
MaxAnswer == 2
\* supabase-integrations.js:374  attempts < 3
MaxTopUps == 3

\* topUp: count, generatedQueries.length, attempts, where the handler is, and
\* for the claims the supplementary calls issued and the length at the last one.
InitTopUp ==
  /\ InitQuiet
  /\ input = <<>>
  /\ output = <<>>
  /\ reset = <<>>
  /\ topUp \in {[pc |-> "first", count |-> n, length |-> 0, attempts |-> 0,
                 calls |-> 0, lengthAtCall |-> 0] : n \in 1..MaxCount}

\* A loop that goes on while records are missing.
TopUpNeededUncounted(t) == t.length < t.count

\* while (generatedQueries.length < count && attempts < 3)
TopUpNeeded(t) == t.length < t.count /\ t.attempts < MaxTopUps

\* The loop from its condition to the next await: attempts++ and a
\* supplementary InvokeLLM call, or, past the loop, slice(0, count).
LoopTest(t) ==
  IF TopUpNeeded(t)
    THEN [t EXCEPT !.pc = "calling", !.attempts = @ + 1, !.calls = @ + 1,
                   !.lengthAtCall = t.length]
    ELSE [t EXCEPT !.pc = "saving", !.length = Min(t.length, t.count)]

\* let generatedQueries = response.queries || []
FirstResponse ==
  /\ topUp.pc = "first"
  /\ \E n \in 0..MaxAnswer :
       topUp' = LoopTest([topUp EXCEPT !.length = n])
  /\ UNCHANGED <<progVars, input, output, reset>>

\* if (additionalResponse.queries && additionalResponse.queries.length > 0)
\*   generatedQueries = [...generatedQueries, ...additionalResponse.queries]
AdditionalResponse ==
  /\ topUp.pc = "calling"
  /\ \E n \in 0..MaxAnswer :
       topUp' = LoopTest([topUp EXCEPT !.length = IF n > 0 THEN @ + n ELSE @])
  /\ UNCHANGED <<progVars, input, output, reset>>

\* InvokeLLM rejects: the handler's catch block ends the generation.
InvokeLLMThrows ==
  /\ topUp.pc \in {"first", "calling"}
  /\ topUp' = [topUp EXCEPT !.pc = "thrown"]
  /\ UNCHANGED <<progVars, input, output, reset>>

NextTopUp ==
  \/ FirstResponse
  \/ AdditionalResponse
  \/ InvokeLLMThrows

\* Every InvokeLLM call settles.
SpecTopUp == InitTopUp /\ [][NextTopUp]_vars /\ WF_vars(NextTopUp)

\* (11) reset-stuck-queries for project 1, next to analyze-queries calls that
\* mark and finish rows of the same table.
\* Rows of the queries table in this specification.
NumRows == 2

\* reset: the rows (project, analysis_status, stale: updated_at is before the
\* cutoffTime the handler computed), the handler's position and stuckQueries.
InitReset ==
  /\ InitQuiet
  /\ input = <<>>
  /\ output = <<>>
  /\ topUp = <<>>
  /\ reset \in
       [rows : [1..NumRows ->
                  [project : {1, 2},
                   status : {"pending", "analyzing", "complete", "error"},
                   stale : BOOLEAN]],
        pc : {"start"},
        stuckQueries : {{}}]

\* analyze-queries marks a pending row; the trigger sets updated_at = NOW().
AnalyzeMarks ==
  /\ \E id \in 1..NumRows :
       /\ reset.rows[id].status = "pending"
       /\ reset' = [reset EXCEPT !.rows[id].status = "analyzing",
                                 !.rows[id].stale = FALSE]
  /\ UNCHANGED <<progVars, input, output, topUp>>

\* analyze-queries writes the outcome of a row it marked.
AnalyzeFinishes ==
  /\ \E id \in 1..NumRows, outcome \in {"complete", "error"} :
       /\ reset.rows[id].status = "analyzing"
       /\ reset' = [reset EXCEPT !.rows[id].status = outcome,
                                 !.rows[id].stale = FALSE]
  /\ UNCHANGED <<progVars, input, output, topUp>>

\* select ... eq(project_id) eq(analysis_status, 'analyzing') lt(updated_at,
\* cutoffTime); with nothing found the handler answers reset_count 0.
ResetSelect ==
  /\ reset.pc = "start"
  /\ LET found == {id \in 1..NumRows :
                     /\ reset.rows[id].project = 1
                     /\ reset.rows[id].status = "analyzing"
                     /\ reset.rows[id].stale}
     IN  reset' = [reset EXCEPT !.stuckQueries = found,
                                !.pc = IF found = {} THEN "done" ELSE "found"]
  /\ UNCHANGED <<progVars, input, output, topUp>>

\* update({ analysis_status: 'pending' }).in('id', stuckQueries.map(q => q.id))
ResetUpdate ==
  /\ reset.pc = "found"
  /\ reset' = [reset EXCEPT
       !.rows = [id \in 1..NumRows |->
                   IF id \in reset.stuckQueries
                     THEN [reset.rows[id] EXCEPT !.status = "pending",
                                                 !.stale = FALSE]
                     ELSE reset.rows[id]],
       !.pc = "done"]
  /\ UNCHANGED <<progVars, input, output, topUp>>

NextReset ==
  \/ AnalyzeMarks
  \/ AnalyzeFinishes
  \/ ResetSelect
  \/ ResetUpdate

SpecReset == InitReset /\ [][NextReset]_vars

\* ------------------------------------------------------------ claims
Settled(t) == promise[t].state \in {"resolved", "rejected"}
Started(t) == inv[t].pc # "none"
AllRetryable(i) ==
  \A k \in 1..Len(i.retryMetadata) : shouldRetry(i.retryMetadata[k].errorType)
LastFailure(i) == i.retryMetadata[Len(i.retryMetadata)]

\* C2: with requestsPerMinute = R, at most R functions have been admitted
\* within the trailing 60 000 ms, in every reachable state.
C2_AdmissionCeiling == Len(admitAges) <= limits.requestsPerMinute

\* The window was full, the loop waited, and a later function was admitted.
C2_Witness ==
  /\ Len(admitAges) = limits.requestsPerMinute
  /\ Cardinality({t \in Tasks : Started(t)}) > limits.requestsPerMinute
  /\ \E k \in 1..Len(admitAges) : admitAges[k] > 0

\* C3: when every attempt has failed with a retryable error and the invoker
\* has thrown, the remote model was called exactly maxRetries + 1 times and the
\* error thrown is that of the last attempt; the call count never exceeds
\* maxRetries + 1 and a run of failures never returns a result.
C3_RetryExhaustion ==
  \A t \in Tasks :
    /\ inv[t].calls <= config.maxRetries + 1
    /\ (inv[t].pc = "thrown" /\ AllRetryable(inv[t]))
         => /\ inv[t].calls = config.maxRetries + 1
            /\ Len(inv[t].retryMetadata) = config.maxRetries + 1
            /\ inv[t].lastError = <<LastFailure(inv[t]).errorMessage>>
            /\ promise[t].state = "rejected"
            /\ promise[t].error = inv[t].lastError

C3_Witness ==
  /\ config.maxRetries = MaxRetriesBound
  /\ inv[1].pc = "thrown"
  /\ AllRetryable(inv[1])
  /\ inv[1].calls = MaxRetriesBound + 1
  /\ inv[1].retryMetadata[1].errorMessage # inv[1].lastError[1]

C5_RemoteCallCeiling == Len(callAges) <= limits.requestsPerMinute

\* C6: functions start in the order throttle was called: a function that
\* starts is the oldest one submitted and not yet started.
C6_FifoAdmission ==
  [][\A t \in Tasks :
       (inv[t].pc = "none" /\ inv'[t].pc # "none")
         => (Len(waiting) > 0 /\ t = Head(waiting))
            \/ (Len(waiting) = 0 /\ promise[t].state = "none")]_vars

\* The second function is running, the first has started before it and the
\* third waits behind it.
C6_Witness ==
  /\ loopPc = "request" /\ current = 2
  /\ Started(1) /\ ~Started(3)
  /\ waiting = <<3>>
  /\ Len(admitAges) = 2

\* C7: every function submitted to throttle is eventually started, and the
\* promise throttle returned is eventually settled with its outcome.
C7_EventuallySettled ==
  \A t \in 1..NumTasks :
    (promise[t].state = "pending")
      ~> (Settled(t) /\ inv[t].pc \in {"returned", "thrown"})

\* More functions than one window admits have all settled.
C7_Witness ==
  /\ \A t \in 1..NumTasks : Settled(t)
  /\ limits.requestsPerMinute < NumTasks
  /\ ~isProcessing

\* C8: a throttled function that throws rejects its throttle promise with the
\* same error and does not stop the admission loop: the loop takes its next
\* step, keeps running while functions are queued, and the processing flag is
\* cleared when the loop ends with the queue empty.
C8_ThrowDoesNotStopLoop ==
  /\ \A t \in Tasks :
       inv[t].pc = "thrown"
         => /\ promise[t].state = "rejected"
            /\ promise[t].error = inv[t].lastError
  /\ (loopPc = "request" /\ inv[current].pc = "thrown")
       => ENABLED LoopAfterRequest
  /\ Len(requestQueue) > 0 => (isProcessing /\ loopPc # "idle")
  /\ loopPc = "idle" => (~isProcessing /\ Len(requestQueue) = 0)

\* A function threw, a function queued behind it was admitted and finished,
\* and the loop has ended.
C8_Witness ==
  /\ inv[1].pc = "thrown"
  /\ inv[2].pc = "returned"
  /\ Len(requestQueue) = 0
  /\ ~isProcessing

\* The items call c selected.
Selected(c) == {call[c].queries[k] : k \in 1..Len(call[c].queries)}

\* C1: when an analyze call returns its success response, every item it
\* selected is 'complete' or 'error' in the store.
C1_NoneLeftAnalyzing ==
  \A c \in Calls :
    call[c].pc = "done"
      => \A q \in Selected(c) : status[q] \in {"complete", "error"}

\* C9: the statuses an analyze call writes to an item are 'analyzing' and then
\* exactly one of 'complete' and 'error'; it never writes 'pending', it writes
\* only to items it read as 'pending', and when it responds every selected
\* item has had both writes; while no other call has started, the stored status
\* of an item is the last status the call wrote to it, 'pending' if none.
WriteLogs ==
  {<<>>, <<"analyzing">>, <<"analyzing", "complete">>, <<"analyzing", "error">>}

C10_ExclusiveOwnership ==
  /\ [](\A q \in Items : Cardinality({c \in Calls : writes[c][q] # <<>>}) <= 1)
  /\ [][\A q \in Items : status[q] = "complete" => status'[q] = "complete"]_vars

\* The batch of the k-th selected row: Math.floor((k - 1) / batchSize).
BatchOf(k) == (k - 1) \div batchSize

\* C11: batches are sequential: when the callback of an item of a later batch
\* has started (its 'analyzing' update is issued, or it is at the limiter),
\* every item of every earlier batch of the call has been written 'complete'
\* or 'error' by the call.
C11_SequentialBatches ==
  \A c \in Calls :
    \A j, k \in 1..Len(call[c].queries) :
      (/\ BatchOf(k) < BatchOf(j)
       /\ \/ handler[c][call[c].queries[j]] # "none"
          \/ writes[c][call[c].queries[j]] # <<>>
          \/ promise[TaskOf(c, call[c].queries[j])].state # "none")
        => /\ Len(writes[c][call[c].queries[k]]) = 2
           /\ writes[c][call[c].queries[k]][2] \in {"complete", "error"}

\* A call with more rows than one batch holds has marked a row of its second
\* batch.
C11_Witness ==
  \E c \in Calls :
    /\ Len(call[c].queries) > batchSize
    /\ writes[c][call[c].queries[batchSize + 1]] = <<"analyzing">>

\* Two rows of the same batch of call c.
SameBatch(c, a, b) ==
  \E j, k \in 1..Len(call[c].queries) :
    /\ call[c].queries[j] = a /\ call[c].queries[k] = b
    /\ a # b
    /\ BatchOf(j) = BatchOf(k)

\* C12: the items of a batch run in parallel: while one item's invocation is in
\* its retry backoff sleep, another item of the same batch that has been
\* submitted and that the window has room for is not kept from starting its
\* remote call by that invocation.
C12_BackoffDoesNotDelay ==
  \A c \in Calls : \A a, b \in Items :
    ~ /\ SameBatch(c, a, b)
      /\ inv[TaskOf(c, a)].pc = "sleeping"
      /\ loopPc = "request" /\ current = TaskOf(c, a)
      /\ promise[TaskOf(c, b)].state = "pending"
      /\ ~Started(TaskOf(c, b))
      /\ ~WindowFull(PruneTimestamps(requestTimestamps))

\* C13: when the invoker call of an item fails, the item is persisted with
\* status 'error', brand mentions 'Analysis unavailable', source 'Unable to
\* determine', and the query type and category the callback read for the item
\* (Educational / Industry monitoring when the row had none); none of the four
\* result fields is null or empty.
C13_FallbackPersisted ==
  callback.pc = "error"
    => /\ item.analysis_status = "error"
       /\ item.brand_mentions = "Analysis unavailable"
       /\ item.source = "Unable to determine"
       /\ item.query_type =
            IF callback.queryRecord.query_type = Null THEN "Educational"
            ELSE callback.queryRecord.query_type
       /\ item.query_category =
            IF callback.queryRecord.query_category = Null
              THEN "Industry monitoring"
            ELSE callback.queryRecord.query_category
       /\ \A f \in {"brand_mentions", "source", "query_type", "query_category"} :
            item[f] \notin {Null, ""}

\* A row read without type and category has failed and holds the defaults.
C13_Witness ==
  /\ callback.pc = "error"
  /\ callback.queryRecord.query_type = Null
  /\ callback.queryRecord.query_category = Null
  /\ item.query_type = "Educational"
  /\ item.analysis_status = "error"

\* The selected rows of call c whose final write was s.
WrittenAs(c, s) ==
  {q \in Selected(c) : Len(writes[c][q]) = 2 /\ writes[c][q][2] = s}

\* C14: failures are item-scoped: a call never answers with a failure because
\* an item failed; when it responds every selected item has its final write
\* and the counts of the response are those of the writes; and the final
\* write of an item is 'complete' exactly when its own invocation resolved,
\* whatever happened to the other items.
C14_FailuresItemScoped ==
  /\ [](\A c \in Calls :
          /\ call[c].pc # "failed"
          /\ call[c].pc = "done"
               => /\ WrittenAs(c, "complete") \cup WrittenAs(c, "error")
                       = Selected(c)
                  /\ call[c].analyzed = Cardinality(WrittenAs(c, "complete"))
                  /\ call[c].errors = Cardinality(WrittenAs(c, "error")))
  /\ [][\A c \in Calls : \A q \in Items :
          (handler[c][q] = "throttled" /\ handler'[c][q] = "done")
            => /\ Len(writes'[c][q]) = 2
               /\ writes'[c][q][2] =
                    IF promise[TaskOf(c, q)].state = "resolved"
                      THEN "complete" ELSE "error"]_vars

\* A call has responded with an error and a success in its first batch and a
\* success in its second.
C14_Witness ==
  \E c \in Calls :
    /\ call[c].pc = "done"
    /\ call[c].queries = <<1, 2, 3>>
    /\ writes[c][1] = <<"analyzing", "error">>
    /\ writes[c][2] = <<"analyzing", "complete">>
    /\ writes[c][3] = <<"analyzing", "complete">>

\* C15: at the end of a call that processed items, the project is set to
\* 'analysis_complete', step 3, if and only if no item of the project is
\* 'pending' or 'analyzing' when the call checks; nothing else changes the
\* project.
C15_ProjectCompleteIff ==
  /\ [][\A c \in Calls :
          (call[c].pc = "checking" /\ call'[c].pc # "checking")
            => (call'[c].pc = "updatingProject" <=> RemainingQueries = {})]_vars
  /\ [][project' # project
          => /\ \E c \in Calls : call[c].pc = "updatingProject"
             /\ project' = [status |-> "analysis_complete",
                            current_step |-> 3]]_vars

\* Call c has touched item q: a status write, a started callback, a function
\* at the limiter or a run of the invoker.
Touched(c, q) ==
  \/ writes[c][q] # <<>>
  \/ handler[c][q] # "none"
  \/ promise[TaskOf(c, q)].state # "none"
  \/ inv[TaskOf(c, q)].pc # "none"

BatchRows(g) == {r \in rows : r.batch = g}

\* The generation of invocation g has ended: it failed, or gave its queries.
GenerationFailed(g) == gen[g].pc = "failed" /\ gen[g].generated = <<>>
GenerationGave(g) == gen[g].generated # <<>>

\* C17: generate can be invoked again on a project that holds a generated
\* batch: an invocation that begins when the earlier ones have ended, once its
\* generation has given queries, inserts them numbered from 1 and ends with
\* the project in 'queries_generated'.
C17_RegenerateSucceeds ==
  \A g \in GenCalls :
    (gen[g].existing > 0 /\ gen[g].alone /\ GenerationGave(g))
      => /\ gen[g].pc \in {"inserted", "done"}
         /\ {r.query_id : r \in BatchRows(g)} = 1..Len(gen[g].generated)
         /\ gen[g].pc = "done" => project.status = "queries_generated"

\* C18: when generation fails the invocation has inserted no row and the
\* project's stored status is 'error'.
C18_FailureLeavesError ==
  \A g \in GenCalls :
    GenerationFailed(g)
      => /\ BatchRows(g) = {}
         /\ project.status = "error"

\* C19: the batch an invocation persists has the target count of records when
\* the model gave more valid records than that, all the valid records
\* otherwise, and its query ids are 1..n in list order.
C19_TruncateAndRenumber ==
  \A g \in GenCalls :
    gen[g].pc \in {"inserted", "done"}
      => LET n == Min(Len(gen[g].generated), gen[g].target) IN
         /\ {r.query_id : r \in BatchRows(g)} = 1..n
         /\ \A r \in BatchRows(g) :
              r.query_text = gen[g].generated[r.query_id].query_text

\* The functions that have run to their end.
Executed == {t \in Tasks : inv[t].pc = "returned"}

Populated(result) ==
  /\ Len(result.brand_mentions) \in 1..BrandCap
  /\ \A i \in 1..Len(result.brand_mentions) :
       /\ Len(result.brand_mentions[i]) > 0
       /\ Trim(result.brand_mentions[i]) = result.brand_mentions[i]
  /\ Len(result.source) > 0
  /\ InList(VALID_QUERY_TYPES, result.query_type)
  /\ InList(VALID_QUERY_CATEGORIES, result.query_category)

\* C21: the sanitizer is total on parsed input: for every parsed value, null
\* and other non-objects included, it does not throw and returns all four
\* fields populated.
C21_SanitizerTotal ==
  Len(output) >= 1 => (~output[1].threw /\ Populated(output[1]))

\* C22: sanitizing the serialized result of a sanitization gives the same four
\* fields as the first sanitization.
C22_SanitizeIdempotent ==
  Len(output) = 2 => output[2] = output[1]

\* C23: an attempt that fails with an UNKNOWN error while retries remain is
\* followed by a backoff sleep and a retry, as for the retryable classes; one
\* that fails with AUTH_ERROR is not retried.
C23_UnknownRetried ==
  \A t \in Tasks :
    /\ (/\ Len(inv[t].retryMetadata) > 0
        /\ LastFailure(inv[t]).errorType = "UNKNOWN"
        /\ LastFailure(inv[t]).attempt < config.maxRetries)
         => /\ inv[t].pc # "thrown"
            /\ inv[t].sleeps = Len(inv[t].retryMetadata)
    /\ (/\ Len(inv[t].retryMetadata) > 0
        /\ LastFailure(inv[t]).errorType = "AUTH_ERROR")
         => inv[t].pc = "thrown"

C24_RateLimitFloor ==
  (Len(output) = 2 /\ output[1] = "RATE_LIMIT") => output[2] >= 60000

\* The floor lifts a delay whose base is under 60 000 ms.
C24_Witness ==
  /\ Len(output) = 2
  /\ output[1] = "RATE_LIMIT"
  /\ input.cfg.maxDelayMs < 60000
  /\ input.attempt > 0
  /\ output[2] = 60000

\* base = min(initialDelayMs * backoffMultiplier^attempt, maxDelayMs)
BaseOf(in) ==
  LET grown == in.cfg.initialDelayMs * Pow(in.cfg.backoffMultiplier, in.attempt)
  IN  IF grown < in.cfg.maxDelayMs THEN grown ELSE in.cfg.maxDelayMs

RuleOrder ==
  <<[class |-> "RATE_LIMIT", markers |-> {"429", "rate limit", "quota"}],
    [class |-> "PARSE_ERROR", markers |-> {"parse", "json", "invalid"}],
    [class |-> "NETWORK_ERROR", markers |-> {"network", "fetch", "timeout"}],
    [class |-> "VALIDATION_ERROR", markers |-> {"validation"}],
    [class |-> "AUTH_ERROR", markers |-> {"auth", "401", "403"}]>>

\* C26: the class is that of the first rule, in the order RATE_LIMIT,
\* PARSE_ERROR, NETWORK_ERROR, VALIDATION_ERROR, AUTH_ERROR, one of whose
\* substrings is in the message, and UNKNOWN when there is none; a message
\* with '401' and 'invalid' is a PARSE_ERROR and is retried.
C26_FirstRuleWins ==
  Len(output) >= 1 =>
    LET matching == {k \in 1..Len(RuleOrder) :
                       RuleOrder[k].markers \cap input.message # {}}
    IN  /\ matching = {} => output[1] = "UNKNOWN"
        /\ matching # {} =>
             \E k \in matching :
               /\ \A j \in matching : k <= j
               /\ output[1] = RuleOrder[k].class
        /\ input.message = MsgAuthInvalid
             => output[1] = "PARSE_ERROR" /\ shouldRetry(output[1])

\* A message with both an AUTH_ERROR and a PARSE_ERROR substring is classified.
C26_Witness ==
  /\ Len(output) >= 1
  /\ input.message = MsgAuthInvalid
  /\ output[1] = "PARSE_ERROR"

\* C27: a supplementary call is issued only while the accumulated count is
\* below the target, at most 3 are issued, also when they return no records,
\* and the loop ends.
C27_TopUpBounded ==
  /\ [](/\ topUp.calls <= 3
        /\ topUp.pc = "calling" => topUp.lengthAtCall < topUp.count
        /\ topUp.calls > 0 => topUp.lengthAtCall < topUp.count)
  /\ <>(topUp.pc \in {"saving", "thrown"})

\* Three supplementary calls that returned nothing, and the loop has ended
\* short of the target.
C27_Witness ==
  /\ topUp.pc = "saving"
  /\ topUp.calls = 3
  /\ topUp.length = topUp.lengthAtCall
  /\ topUp.length < topUp.count

\* C28: the write of reset-stuck-queries changes only rows of the given
\* project that are 'analyzing' and older than the cutoff at that moment, each
\* to 'pending'; a row that is 'complete' or 'error' then is left as it is.
C28_ResetOnlyStuck ==
  [][(reset.pc = "found" /\ reset'.pc = "done")
       => \A id \in 1..NumRows :
            reset'.rows[id] # reset.rows[id]
              => /\ reset.rows[id].project = 1
                 /\ reset.rows[id].status = "analyzing"
                 /\ reset.rows[id].stale
                 /\ reset'.rows[id].status = "pending"]_vars

\* C29: at every suspension point of the limiter a non-empty request queue
\* has an admission loop running (isProcessing is true and processQueue is
\* suspended in a sleep or on a request), and isProcessing is false only with
\* an empty queue: no queued function is left without a loop.
C29_QueueHasLoop ==
  /\ Len(requestQueue) > 0
       => isProcessing /\ loopPc \in {"windowSleep", "request", "gapSleep"}
  /\ ~isProcessing => Len(requestQueue) = 0
  /\ isProcessing <=> loopPc # "idle"
  /\ \A t \in Tasks :
       (promise[t].state = "pending" /\ ~Started(t)) => isProcessing

\* Functions wait in the queue while the loop sleeps out a full window.
C29_Witness ==
  /\ Len(requestQueue) > 0
  /\ isProcessing
  /\ loopPc = "windowSleep"
  /\ \E t \in Tasks : promise[t].state = "resolved"

====
